---------------------------- MODULE Spec2Model ----------------------------
(***************************************************************************)
(* A model of the PDS scraper (src/myscript.py): the batch orchestrator    *)
(* run_my_script, the row pipeline process_row, and the response parser of *)
(* validate_pdf_with_ai.  Text that the code inspects character by         *)
(* character (the language model's response, product names, dates) is a    *)
(* sequence of one-character strings, and so is every other text a cell   *)
(* of the table can hold; column names are strings.                        *)
(***************************************************************************)
EXTENDS Integers, Sequences, FiniteSets, TLC

(***************************************************************************)
(* Characters and the classes the regular expressions use.                 *)
(***************************************************************************)
Digits == {"0", "1", "2", "3", "4", "5", "6", "7", "8", "9"}

UpperCase == <<"A", "B", "C", "D", "E", "F", "G", "H", "I", "J", "K", "L", "M", "N", "O", "P", "Q", "R", "S", "T", "U", "V", "W", "X", "Y", "Z">>

LowerCase == <<"a", "b", "c", "d", "e", "f", "g", "h", "i", "j", "k", "l", "m", "n", "o", "p", "q", "r", "s", "t", "u", "v", "w", "x", "y", "z">>

\* [A-Za-z]
Letters == {UpperCase[i] : i \in 1..26} \cup {LowerCase[i] : i \in 1..26}

\* \s, and what str.strip() removes
Space == {" ", "\n", "\t"}

Punct == {"|", ":", "(", ")", "-", "[", "]", "'", "/", "\\", "*", "?", "\"", "<", ">", ".", ","}

Alphabet == Digits \cup Letters \cup Space \cup Punct

\* [^|]
NonPipe == Alphabet \ {"|"}

\* . (without re.DOTALL a dot matches anything but a line break)
Dot == Alphabet \ {"\n"}

\* the class [\\/*?:"<>|] of the file-name sanitizer
Unsafe == {"\\", "/", "*", "?", ":", "\"", "<", ">", "|"}

Min(S) == CHOOSE x \in S : \A y \in S : x <= y

Max(S) == CHOOSE x \in S : \A y \in S : x >= y

\* the character at position i, "" past either end
At(s, i) == IF i \in 1..Len(s) THEN s[i] ELSE ""

\* where a greedy run of characters of cls that starts at i stops: the first
\* position at or after i whose character is not in cls (Len(s)+1 at the end)
SpanEnd(s, i, cls) ==
  LET stops == {j \in i..Len(s) : s[j] \notin cls}
  IN  IF stops = {} THEN Max({Len(s) + 1, i}) ELSE Min(stops)

\* whether lit occurs in s at position i
HasLit(s, i, lit) ==
  /\ i >= 1
  /\ i + Len(lit) - 1 <= Len(s)
  /\ \A k \in 1..Len(lit) : s[i + k - 1] = lit[k]

\* str.strip()
Strip(s) ==
  LET keep == {j \in 1..Len(s) : s[j] \notin Space}
  IN  IF keep = {} THEN <<>> ELSE SubSeq(s, Min(keep), Max(keep))

DigitVal(c) ==
  CASE c = "0" -> 0 [] c = "1" -> 1 [] c = "2" -> 2 [] c = "3" -> 3
    [] c = "4" -> 4 [] c = "5" -> 5 [] c = "6" -> 6 [] c = "7" -> 7
    [] c = "8" -> 8 [] c = "9" -> 9

DigitChar(d) == <<"0", "1", "2", "3", "4", "5", "6", "7", "8", "9">>[d + 1]

RECURSIVE ToInt(_)
\* int() of a run of decimal digits
ToInt(ds) ==
  IF ds = <<>> THEN 0
  ELSE 10 * ToInt(SubSeq(ds, 1, Len(ds) - 1)) + DigitVal(ds[Len(ds)])

RECURSIVE ToDigits(_)
\* the decimal digits of a natural number, no padding
ToDigits(n) ==
  IF n < 10 THEN <<DigitChar(n)>>
  ELSE ToDigits(n \div 10) \o <<DigitChar(n % 10)>>

\* case folding, as strptime compares month names
Lower(c) ==
  IF \E i \in 1..26 : UpperCase[i] = c
  THEN LowerCase[CHOOSE i \in 1..26 : UpperCase[i] = c]
  ELSE c

LowerSeq(s) == [i \in 1..Len(s) |-> Lower(s[i])]

(***************************************************************************)
(* format_pds_date: strptime(date_str, "%d %B %Y") then                     *)
(* strftime("%-d %B %Y"); the string unchanged on ValueError.              *)
(***************************************************************************)
MonthNames ==
  << <<"J", "a", "n", "u", "a", "r", "y">>,
     <<"F", "e", "b", "r", "u", "a", "r", "y">>,
     <<"M", "a", "r", "c", "h">>,
     <<"A", "p", "r", "i", "l">>,
     <<"M", "a", "y">>,
     <<"J", "u", "n", "e">>,
     <<"J", "u", "l", "y">>,
     <<"A", "u", "g", "u", "s", "t">>,
     <<"S", "e", "p", "t", "e", "m", "b", "e", "r">>,
     <<"O", "c", "t", "o", "b", "e", "r">>,
     <<"N", "o", "v", "e", "m", "b", "e", "r">>,
     <<"D", "e", "c", "e", "m", "b", "e", "r">> >>

IsLeap(y) == (y % 4 = 0 /\ y % 100 # 0) \/ y % 400 = 0

DaysIn(m, y) ==
  IF m = 2 THEN (IF IsLeap(y) THEN 29 ELSE 28)
  ELSE IF m \in {4, 6, 9, 11} THEN 30 ELSE 31

\* strptime: [ok, day, month, year].  %d takes one or two digits naming 1..31,
\* a blank of the format takes \s+, %B a full month name in any case, %Y four
\* digits, nothing may remain, and the day must exist in that month and year.
ParseDate(s) ==
  LET d  == SpanEnd(s, 1, Digits)
      w1 == SpanEnd(s, d, Space)
      l  == SpanEnd(s, w1, Letters)
      w2 == SpanEnd(s, l, Space)
      y  == SpanEnd(s, w2, Digits)
      dayOk   == d \in 2..3 /\ ToInt(SubSeq(s, 1, d - 1)) \in 1..31
      monthIx == {m \in 1..12 :
                    LowerSeq(MonthNames[m]) = LowerSeq(SubSeq(s, w1, l - 1))}
      shapeOk == /\ dayOk
                 /\ w1 > d
                 /\ monthIx # {}
                 /\ w2 > l
                 /\ y = w2 + 4
                 /\ y = Len(s) + 1
      day   == ToInt(SubSeq(s, 1, d - 1))
      month == CHOOSE m \in monthIx : TRUE
      year  == ToInt(SubSeq(s, w2, y - 1))
  IN  IF shapeOk /\ year >= 1 /\ day <= DaysIn(month, year)
      THEN [ok |-> TRUE, day |-> day, month |-> month, year |-> year]
      ELSE [ok |-> FALSE, day |-> 0, month |-> 0, year |-> 0]

format_pds_date(date_str) ==
  LET p == ParseDate(date_str)
  IN  IF p.ok
      THEN ToDigits(p.day) \o <<" ">> \o MonthNames[p.month] \o <<" ">>
             \o ToDigits(p.year)
      ELSE date_str

(***************************************************************************)
(* The response parser of validate_pdf_with_ai.  Each Match operator is    *)
(* one re.match call: it walks the pattern from position 1 and returns     *)
(* whether it matched and the groups.  Every quantifier of the three       *)
(* patterns is followed by a character outside its class, so the greedy    *)
(* run is the only way to match, except where noted.                       *)
(***************************************************************************)
PdsDateLit == <<"P", "D", "S", " ", "d", "a", "t", "e", ":">>

ScoreLit100 == <<"1", "0", "0">>

\* line 101 (the source writes the apostrophe as a typographic one)
CouldntParse == <<"C", "o", "u", "l", "d", "n", "'", "t", " ", "p", "a", "r", "s", "e", " ", "A", "I", " ", "r", "e", "s", "p", "o", "n", "s", "e">>

ErrorPrefix == <<"E", "r", "r", "o", "r", ":", " ">>

\* (\d{1,2} [A-Za-z]+ \d{4}) at position q: the end of the date, 0 if none.
\* One or two digits, one blank, letters, one blank, four digits; what follows
\* the fourth digit is not looked at.
DateEnd(s, q) ==
  LET d == SpanEnd(s, q, Digits)
      l == SpanEnd(s, d + 1, Letters)
  IN  IF /\ d - q \in 1..2
         /\ At(s, d) = " "
         /\ l > d + 1
         /\ At(s, l) = " "
         /\ \A k \in 1..4 : At(s, l + k) \in Digits
      THEN l + 4
      ELSE 0

\* \s*PDS date:\s*(date) at position p: [ok, from, to] of the date
DateTail(s, p) ==
  LET a == SpanEnd(s, p, Space)
      q == SpanEnd(s, a + Len(PdsDateLit), Space)
      e == DateEnd(s, q)
  IN  IF HasLit(s, a, PdsDateLit) /\ e > 0
      THEN [ok |-> TRUE, from |-> q, to |-> e]
      ELSE [ok |-> FALSE, from |-> 0, to |-> 0]

\* (\d+)\s*\|\s*([^|]+)\s*\|\s*PDS date:\s*(\d{1,2} [A-Za-z]+ \d{4})
\* group 2 runs to the next pipe; when all that lies between the two pipes is
\* blanks, the \s* before it gives its last blank back to the group.
match_3(s) ==
  LET d  == SpanEnd(s, 1, Digits)
      b1 == SpanEnd(s, d, Space)
      w  == SpanEnd(s, b1 + 1, Space)
      b2 == SpanEnd(s, b1 + 1, NonPipe)
      g  == IF w < b2 THEN w ELSE b2 - 1
      t  == DateTail(s, b2 + 1)
  IN  IF /\ d > 1
         /\ At(s, b1) = "|"
         /\ b2 > b1 + 1
         /\ At(s, b2) = "|"
         /\ t.ok
      THEN [ok |-> TRUE, g1 |-> SubSeq(s, 1, d - 1), g2 |-> SubSeq(s, g, b2 - 1),
            g3 |-> SubSeq(s, t.from, t.to)]
      ELSE [ok |-> FALSE, g1 |-> <<>>, g2 |-> <<>>, g3 |-> <<>>]

\* 100\s*\|\s*PDS date:\s*(\d{1,2} [A-Za-z]+ \d{4})
match_100(s) ==
  LET b1 == SpanEnd(s, Len(ScoreLit100) + 1, Space)
      t  == DateTail(s, b1 + 1)
  IN  IF HasLit(s, 1, ScoreLit100) /\ At(s, b1) = "|" /\ t.ok
      THEN [ok |-> TRUE, g1 |-> SubSeq(s, t.from, t.to)]
      ELSE [ok |-> FALSE, g1 |-> <<>>]

\* (\d+)\s*\|\s*(.*)
match_2(s) ==
  LET d  == SpanEnd(s, 1, Digits)
      b1 == SpanEnd(s, d, Space)
      w  == SpanEnd(s, b1 + 1, Space)
      e  == SpanEnd(s, w, Dot)
  IN  IF d > 1 /\ At(s, b1) = "|"
      THEN [ok |-> TRUE, g1 |-> SubSeq(s, 1, d - 1), g2 |-> SubSeq(s, w, e - 1)]
      ELSE [ok |-> FALSE, g1 |-> <<>>, g2 |-> <<>>]

\* A classification result: the (score, reason, pds_date) the code returns,
\* and via, which return statement produced it.
Result(via, score, reason, date) ==
  [via |-> via, score |-> score, reason |-> reason, date |-> date]

\* the cascade with the fallback tried first
ParseSwapped(raw) ==
  LET content == Strip(raw)
      m3   == match_3(content)
      m100 == match_100(content)
      m2   == match_2(content)
  IN  IF m2.ok THEN Result("two", ToInt(m2.g1), Strip(m2.g2), <<>>)
      ELSE IF m3.ok
      THEN Result("three", ToInt(m3.g1), Strip(m3.g2), format_pds_date(Strip(m3.g3)))
      ELSE IF m100.ok THEN Result("bare", 100, <<>>, format_pds_date(m100.g1))
      ELSE Result("unparsed", 0, CouldntParse, <<>>)

\* lines 77-101: the response stripped, then the three patterns in order
ParseResponse(raw) ==
  LET content == Strip(raw)
      m3   == match_3(content)
      m100 == match_100(content)
      m2   == match_2(content)
  IN  IF m3.ok
      THEN Result("three", ToInt(m3.g1), Strip(m3.g2), format_pds_date(Strip(m3.g3)))
      ELSE IF m100.ok THEN Result("bare", 100, <<>>, format_pds_date(m100.g1))
      ELSE IF m2.ok THEN Result("two", ToInt(m2.g1), Strip(m2.g2), <<>>)
      ELSE Result("unparsed", 0, CouldntParse, <<>>)

\* line 104: the model call raised; msg is str(e)
ErrorResult(msg) == Result("error", 0, ErrorPrefix \o msg, <<>>)

(***************************************************************************)
(* The responses the parser is run on: every concatenation of a score, a   *)
(* separator, a reason, a second separator and a date tail drawn from      *)
(* these sets.  They hold the four examples of the prompt, well-formed     *)
(* and malformed dates, missing parts, extra pipes and line breaks.        *)
(***************************************************************************)
ScoreSegs ==
  { <<"1", "0", "0">>,
    <<"7", "5">>,
    <<"0">>,
    <<"1", "5", "0">>,
    <<>>,
    <<"x">> }

Sep1Segs ==
  { <<" ", "|", " ">>,
    <<"|">>,
    <<>> }

ReasonSegs ==
  { <<"O", "l", "d", " ", "d", "a", "t", "e", " ", "(", "-", "2", "5", ")">>,
    <<"[", "b", "l", "a", "n", "k", "]">>,
    <<"U", "n", "k", "n", "o", "w", "n", " ", "r", "e", "a", "s", "o", "n">>,
    <<" ">>,
    <<>>,
    <<"a", "|", "b">>,
    <<"O", "l", "d", "\n", "n", "o", "t", "e">>,
    <<"\n", "O", "l", "d">> }

Sep2Segs ==
  { <<" ", "|", " ">>,
    <<>> }

DateSegs ==
  { <<"P", "D", "S", " ", "d", "a", "t", "e", ":", " ", "1", "0", " ", "A", "p", "r", "i", "l", " ", "2", "0", "2", "3">>,
    <<"P", "D", "S", " ", "d", "a", "t", "e", ":", " ", "0", "5", " ", "J", "a", "n", "u", "a", "r", "y", " ", "2", "0", "2", "4">>,
    <<"P", "D", "S", " ", "d", "a", "t", "e", ":">>,
    <<"P", "D", "S", " ", "d", "a", "t", "e", ":", " ", "u", "n", "k", "n", "o", "w", "n">>,
    <<"P", "D", "S", " ", "d", "a", "t", "e", ":", " ", "3", "1", " ", "F", "e", "b", "r", "u", "a", "r", "y", " ", "2", "0", "2", "3">>,
    <<"P", "D", "S", " ", "d", "a", "t", "e", ":", " ", "1", " ", "m", "a", "y", " ", "2", "0", "2", "3">>,
    <<>>,
    <<"P", "D", "S", " ", "d", "a", "t", "e", ":", " ", "1", " ", "M", "a", "y", " ", "2", "0", "2", "3", " ", "|", " ", "P", "D", "S", " ", "d", "a", "t", "e", ":", " ", "2", " ", "J", "u", "n", "e", " ", "2", "0", "2", "4">>,
    <<"P", "D", "S", " ", "d", "a", "t", "e", ":", " ", "1", "2", "3", " ", "M", "a", "y", " ", "2", "0", "2", "3">>,
    <<"P", "D", "S", " ", "d", "a", "t", "e", ":", "1", "5", " ", "M", "a", "r", "c", "h", " ", "2", "0", "2", "2", "1">>,
    <<"g", "a", "r", "b", "a", "g", "e", " ", "t", "e", "x", "t">> }

ParserInputs ==
  { a \o b \o c \o d \o e :
      a \in ScoreSegs, b \in Sep1Segs, c \in ReasonSegs, d \in Sep2Segs,
      e \in DateSegs }

(***************************************************************************)
(* The spreadsheet.  A cell is missing (NaN), a string or a number, as     *)
(* pandas reads it.  The input is a list of rows, each a list of cells by  *)
(* position; the table in memory maps column names to cells.               *)
(***************************************************************************)
NaN == [t |-> "nan"]

Str(v) == [t |-> "str", v |-> v]

Num(n) == [t |-> "num", v |-> n]

\* pd.isna / pd.notna of a cell
isna(cell) == cell.t = "nan"

\* line 24
expected_columns == <<"APIR code", "Product name", "PDS date", "Web link">>

\* the headers of the uploaded sheet: any text, here h1, h2, ...
InputHeader(i) == <<"h1", "h2", "h3", "h4", "h5", "h6">>[i]

NOT_FOUND == <<"N", "o", "t", " ", "f", "o", "u", "n", "d">>

NoPdf == <<"N", "o", " ", "P", "D", "F">>

NoText == <<"N", "o", " ", "t", "e", "x", "t", " ", "e", "x", "t", "r", "a", "c", "t", "e", "d">>

PdfExt == <<".", "p", "d", "f">>

(***************************************************************************)
(* Bounds and inputs.                                                      *)
(***************************************************************************)
MaxRows == 2

MaxCols == 4

OldDate == Str(<<"1", " ", "J", "u", "l", "y", " ", "2", "0", "2", "1">>)

OldLink == Str(<<"h", "t", "t", "p", ":", "/", "/", "o", "l", "d", "/", "p", "d", "s">>)

\* Rows of an uploaded sheet, by position: APIR code, product name, PDS date,
\* web link, and further columns.  The names: missing, plain, with a leading
\* blank, with an unsafe character (it sanitizes to the plain one), a number.
InputRows ==
  { <<Str(<<"X">>), NaN, OldDate, OldLink, Str(<<"n">>), Str(<<"n">>)>>,
    <<Str(<<"X">>), Str(<<"A">>), NaN, NaN, Str(<<"n">>), Str(<<"n">>)>>,
    <<NaN, Str(<<" ", "A">>), NaN, NaN, Str(<<"n">>), Str(<<"n">>)>>,
    <<Str(<<"X">>), Str(<<"A", "/">>), OldDate, OldLink, Str(<<"n">>), Str(<<"n">>)>>,
    <<Str(<<"X">>), Num(7), NaN, NaN, Str(<<"n">>), Str(<<"n">>)>> }

\* what search_google_for_pds returns: "" on no result or any error
FoundUrl == <<"h", "t", "t", "p", ":", "/", "/", "h", "o", "s", "t", "/", "d", "o", "c", ".", "p", "d", "f">>

SearchResults == {<<>>, FoundUrl}

\* what extract_pdf_text_first_page returns: "" on any failure
PageTexts == {<<>>, <<"p", "a", "g", "e", " ", "1">>}

R100 == <<"1", "0", "0", " ", "|", " ", "P", "D", "S", " ", "d", "a", "t", "e", ":", " ", "1", "0", " ", "A", "p", "r", "i", "l", " ", "2", "0", "2", "3">>

R75 == <<"7", "5", " ", "|", " ", "O", "l", "d", " ", "d", "a", "t", "e", " ", "(", "-", "2", "5", ")", " ", "|", " ", "P", "D", "S", " ", "d", "a", "t", "e", ":", " ", "1", "5", " ", "M", "a", "r", "c", "h", " ", "2", "0", "2", "2">>

R150 == <<"1", "5", "0", " ", "|", " ", "U", "n", "k", "n", "o", "w", "n", " ", "r", "e", "a", "s", "o", "n">>

TimeoutMsg == <<"t", "i", "m", "e", "d", " ", "o", "u", "t">>

\* what the chat completion does: it returns a text, or raises
Responses == {R100, R75, R150}

LlmOutcomes == {[raised |-> FALSE, text |-> r] : r \in Responses}
                 \cup {[raised |-> TRUE, text |-> TimeoutMsg]}

\* what the download request does: the file is written whole; the request
\* fails before the file is opened; it fails while the chunks are written,
\* which leaves the file behind
DownloadOutcomes == {"ok", "failed", "failed_midway"}

\* What the services do for one row.  A service that is not reached (the page
\* after an empty search, the model after an empty page) has one outcome.
Oracles ==
  {o \in [url : SearchResults, text : PageTexts, llm : LlmOutcomes,
          dl : DownloadOutcomes] :
     /\ o.url = <<>> => o.text = <<>>
     /\ o.text = <<>> => o.llm = [raised |-> TRUE, text |-> TimeoutMsg] /\ o.dl = "ok"}

VARIABLES
  pc,                \* the phase of the run, or PARSER for the parser alone
  ncols,             \* columns of the uploaded sheet
  input,             \* the uploaded sheet's rows
  columns,           \* column names of the table in memory
  data,              \* the table in memory
  idx,               \* rows the loop has gone through
  folder,            \* file names in the run's download folder
  downloaded_files,  \* the orchestrator's list
  excel,             \* the spreadsheet written, or NotWritten
  archive,           \* the entry names of the zip written, or NoArchive
  ret,               \* what run_my_script returned, or the exception it raised
  hist,              \* per row: what the pipeline did for it
  response,          \* the last text the language model returned
  parsed             \* the last classification result

vars == <<pc, ncols, input, columns, data, idx, folder, downloaded_files, excel,
          archive, ret, hist, response, parsed>>

NotWritten == [written |-> FALSE, table |-> <<>>]

NoArchive == [written |-> FALSE, names |-> <<>>]

NoResult == Result("none", 0, <<>>, <<>>)

\* what happened to a row: what the search and the page extraction gave, whether
\* the classifier was called and its result, what the download did, and whether
\* the orchestrator put the row's file on its list
NoHist ==
  [seen |-> FALSE, found |-> <<>>, text |-> <<>>, called |-> FALSE, cls |-> NoResult,
   dl |-> "none", collected |-> FALSE]

RECURSIVE SeqsUpTo(_, _)
\* the sequences over S of length at most n
SeqsUpTo(S, n) ==
  IF n = 0 THEN {<<>>}
  ELSE LET shorter == SeqsUpTo(S, n - 1)
       IN  shorter \cup {Append(q, x) : q \in {r \in shorter : Len(r) = n - 1}, x \in S}

\* re.sub(r'[\\/*?:"<>|]', "", product_name)
Sanitize(product_name) == SelectSeq(product_name, LAMBDA c : c \notin Unsafe)

\* os.path.join(download_folder, f"{safe_product_name}.pdf"), the folder left out
FilePath(product_name) == Sanitize(product_name) \o PdfExt

(***************************************************************************)
(* run_my_script, lines 198-206: read the sheet, rename its first four     *)
(* columns, set the four output columns on every row.                      *)
(***************************************************************************)
\* pd.read_excel: the header and the rows as uploaded
read_excel == [header |-> [i \in 1..ncols |-> InputHeader(i)], rows |-> input]

\* lines 22-26: df.columns[:4] is shorter when the sheet has fewer than four
\* columns, and the rename then covers those it has; nothing is raised
map_columns(df) ==
  [header |-> [i \in 1..Len(df.header) |->
                 IF i <= Len(expected_columns) THEN expected_columns[i]
                 ELSE df.header[i]],
   rows   |-> df.rows]

\* the frame as a table: each row maps a column name to its cell
AsTable(df) ==
  [r \in 1..Len(df.rows) |->
     [c \in {df.header[i] : i \in 1..Len(df.header)} |->
        df.rows[r][CHOOSE i \in 1..Len(df.header) : df.header[i] = c]]]

\* data[c] = v: the column is created, or overwritten on every row
SetColumn(table, c, v) == [r \in 1..Len(table) |-> (c :> v) @@ table[r]]

\* the preparation with the link column left as uploaded
PrepareKeepsLink(table) ==
  SetColumn(SetColumn(SetColumn(
      IF Len(table) > 0 /\ "Web link" \in DOMAIN table[1] THEN table
      ELSE SetColumn(table, "Web link", Str(<<>>)),
    "Validity Score", Num(0)),
    "Validation Reason", Str(<<>>)),
    "PDS date", Str(<<>>))

\* lines 203-206
PrepareOutputColumns(table) ==
  SetColumn(SetColumn(SetColumn(SetColumn(table,
    "Web link", Str(<<>>)),
    "Validity Score", Num(0)),
    "Validation Reason", Str(<<>>)),
    "PDS date", Str(<<>>))

OutputColumns == {"Web link", "Validity Score", "Validation Reason", "PDS date"}

(***************************************************************************)
(* process_row and download_pdf_file.  The three services are outside the  *)
(* repository: an oracle o says what each of them does for this row.       *)
(***************************************************************************)
\* lines 36-104: the model's text parsed, or the exception turned into a result
validate_pdf_with_ai(llm) ==
  IF llm.raised THEN ErrorResult(llm.text) ELSE ParseResponse(llm.text)

\* line 177
ShouldDownload(score, pdf_url) == score = 100 /\ pdf_url # NOT_FOUND

\* the list fed by every file that exists, whatever the score
CollectAlways(score, pdf_url) == TRUE

\* line 223
ShouldCollect(score, pdf_url) == score = 100 /\ pdf_url # NOT_FOUND

\* lines 138-156: what download_pdf_file leaves in the folder.  The file is
\* opened after the response arrived, so a failure while the chunks are
\* written leaves it there.
download_pdf_file(product_name, outcome) ==
  [path    |-> IF outcome = "ok" THEN FilePath(product_name) ELSE <<>>,
   written |-> IF outcome \in {"ok", "failed_midway"}
               THEN {FilePath(product_name)} ELSE {}]

\* a row downgraded when its download failed
RowResultDowngraded(pdf_url, cls, dl) ==
  IF dl \in {"failed", "failed_midway"}
  THEN <<pdf_url, 0, cls.reason, cls.date>>
  ELSE <<pdf_url, cls.score, cls.reason, cls.date>>

\* line 180: the download's result is not looked at
RowResult(pdf_url, cls, dl) == <<pdf_url, cls.score, cls.reason, cls.date>>

\* lines 169-174: the row's result when the search or the page gave nothing
ShortCircuit(reason) ==
  [ret |-> <<NOT_FOUND, 0, reason, <<>> >>, called |-> FALSE, cls |-> NoResult,
   dl |-> "none", written |-> {}]

\* lines 177-180: dl is "none" when download_pdf_file is not called
AfterDownload(product_name, pdf_url, cls, dl) ==
  [ret |-> RowResult(pdf_url, cls, dl), called |-> TRUE, cls |-> cls, dl |-> dl,
   written |-> IF dl = "none" THEN {}
               ELSE download_pdf_file(product_name, dl).written]

\* lines 176-178
AfterClassifier(product_name, pdf_url, cls, outcome) ==
  AfterDownload(product_name, pdf_url, cls,
                IF ShouldDownload(cls.score, pdf_url) THEN outcome ELSE "none")

\* lines 158-180, for a row whose product name is a string.  The APIR code
\* goes into the search query and the prompt only.
process_row(row, o) ==
  IF o.url = <<>> THEN ShortCircuit(NoPdf)
  ELSE IF o.text = <<>> THEN ShortCircuit(NoText)
  ELSE AfterClassifier(Strip(row["Product name"].v), o.url,
                       validate_pdf_with_ai(o.llm), o.dl)

(***************************************************************************)
(* The run.                                                                *)
(***************************************************************************)
Tables(n) == {[i \in 1..Len(t) |-> SubSeq(t[i], 1, n)] : t \in SeqsUpTo(InputRows, MaxRows)}

\* The state when run_my_script is called.  A sheet of no column has no row.
\* The download folder is new: its name carries the run's timestamp.
Init ==
  /\ pc = "INIT"
  /\ ncols \in 0..MaxCols
  /\ input \in IF ncols = 0 THEN {<<>>} ELSE Tables(ncols)
  /\ columns = {}
  /\ data = <<>>
  /\ idx = 0
  /\ folder = {}
  /\ downloaded_files = <<>>
  /\ excel = NotWritten
  /\ archive = NoArchive
  /\ ret = "running"
  /\ hist = [i \in 1..Len(input) |-> NoHist]
  /\ response = <<>>
  /\ parsed = NoResult

\* lines 193-208
Start ==
  /\ pc = "INIT"
  /\ LET df == map_columns(read_excel)
     IN  /\ data' = PrepareOutputColumns(AsTable(df))
         /\ columns' = {df.header[i] : i \in 1..Len(df.header)} \cup OutputColumns
  /\ downloaded_files' = <<>>
  /\ pc' = "PROCESSING"
  /\ UNCHANGED <<ncols, input, idx, folder, excel, archive, ret, hist, response, parsed>>

InLoop == pc = "PROCESSING" /\ idx < Len(data)

\* line 213 on a table without the column: KeyError leaves run_my_script
RowKeyError ==
  /\ InLoop
  /\ "Product name" \notin columns
  /\ pc' = "FAILED"
  /\ ret' = "KeyError"
  /\ UNCHANGED <<ncols, input, columns, data, idx, folder, downloaded_files, excel,
                 archive, hist, response, parsed>>

\* lines 213-214
SkipRow ==
  /\ InLoop
  /\ "Product name" \in columns
  /\ isna(data[idx + 1]["Product name"])
  /\ idx' = idx + 1
  /\ UNCHANGED <<pc, ncols, input, columns, data, folder, downloaded_files, excel,
                 archive, ret, hist, response, parsed>>

\* line 166 on a cell that is a number: it has no strip(), and
\* AttributeError leaves process_row and run_my_script
RowAttributeError ==
  /\ InLoop
  /\ "Product name" \in columns
  /\ data[idx + 1]["Product name"].t = "num"
  /\ pc' = "FAILED"
  /\ ret' = "AttributeError"
  /\ UNCHANGED <<ncols, input, columns, data, idx, folder, downloaded_files, excel,
                 archive, hist, response, parsed>>

\* lines 217-227: the row's result written into the table, and its file
\* collected when it is found under the name as the sheet gives it
StoreRow(index, pdf_file_path, r, collect, o) ==
  /\ data' = [data EXCEPT ![index] =
                [@ EXCEPT !["Web link"] = Str(r.ret[1]),
                          !["Validity Score"] = Num(r.ret[2]),
                          !["Validation Reason"] = Str(r.ret[3]),
                          !["PDS date"] = Str(r.ret[4])]]
  /\ downloaded_files' = IF collect THEN Append(downloaded_files, pdf_file_path)
                         ELSE downloaded_files
  /\ hist' = [hist EXCEPT ![index] =
                [seen |-> TRUE, found |-> o.url,
                 text |-> IF o.url = <<>> THEN <<>> ELSE o.text,
                 called |-> r.called, cls |-> r.cls, dl |-> r.dl,
                 collected |-> collect]]
  /\ parsed' = IF r.called THEN r.cls ELSE parsed

\* lines 216, 223-227
RunRow(index, pdf_file_path, r, o) ==
  /\ folder' = folder \cup r.written
  /\ StoreRow(index, pdf_file_path, r,
              ShouldCollect(r.ret[2], r.ret[1]) /\ pdf_file_path \in folder \cup r.written,
              o)

\* lines 216-228: one row through the pipeline and into the table
ProcessRow ==
  /\ InLoop
  /\ "Product name" \in columns
  /\ data[idx + 1]["Product name"].t = "str"
  /\ \E o \in Oracles :
       /\ RunRow(idx + 1, FilePath(data[idx + 1]["Product name"].v),
                 process_row(data[idx + 1], o), o)
       /\ response' = IF o.url # <<>> /\ o.text # <<>> /\ ~o.llm.raised
                      THEN o.llm.text ELSE response
  /\ idx' = idx + 1
  /\ UNCHANGED <<pc, ncols, input, columns, excel, archive, ret>>

\* lines 231-232 (a failure of the file system is not modelled)
WriteOutput ==
  /\ pc = "PROCESSING"
  /\ idx = Len(data)
  /\ excel' = [written |-> TRUE, table |-> data]
  /\ pc' = "WRITING_OUTPUT"
  /\ UNCHANGED <<ncols, input, columns, data, idx, folder, downloaded_files, archive,
                 ret, hist, response, parsed>>

\* lines 236-239: each collected file under its basename
Archive ==
  /\ pc = "WRITING_OUTPUT"
  /\ downloaded_files # <<>>
  /\ archive' = [written |-> TRUE, names |-> downloaded_files]
  /\ pc' = "ARCHIVING"
  /\ UNCHANGED <<ncols, input, columns, data, idx, folder, downloaded_files, excel,
                 ret, hist, response, parsed>>

\* line 241
ReturnWithArchive ==
  /\ pc = "ARCHIVING"
  /\ ret' = "excel and zip"
  /\ pc' = "DONE"
  /\ UNCHANGED <<ncols, input, columns, data, idx, folder, downloaded_files, excel,
                 archive, hist, response, parsed>>

\* line 244
ReturnNoArchive ==
  /\ pc = "WRITING_OUTPUT"
  /\ downloaded_files = <<>>
  /\ ret' = "excel and None"
  /\ pc' = "DONE"
  /\ UNCHANGED <<ncols, input, columns, data, idx, folder, downloaded_files, excel,
                 archive, hist, response, parsed>>

Next ==
  \/ Start
  \/ RowKeyError
  \/ SkipRow
  \/ RowAttributeError
  \/ ProcessRow
  \/ WriteOutput
  \/ Archive
  \/ ReturnWithArchive
  \/ ReturnNoArchive

Spec == Init /\ [][Next]_vars

(***************************************************************************)
(* The classifier alone: the language model is asked once, and returns     *)
(* one of ParserInputs or raises.                                          *)
(***************************************************************************)
InitParse ==
  /\ pc = "PARSER"
  /\ response \in ParserInputs
  /\ parsed = NoResult
  /\ ncols = 0
  /\ input = <<>>
  /\ columns = {}
  /\ data = <<>>
  /\ idx = 0
  /\ folder = {}
  /\ downloaded_files = <<>>
  /\ excel = NotWritten
  /\ archive = NoArchive
  /\ ret = "running"
  /\ hist = <<>>

\* lines 77-101
ClassifierReturns ==
  /\ pc = "PARSER"
  /\ parsed = NoResult
  /\ parsed' = validate_pdf_with_ai([raised |-> FALSE, text |-> response])
  /\ UNCHANGED <<pc, ncols, input, columns, data, idx, folder, downloaded_files,
                 excel, archive, ret, hist, response>>

\* lines 103-104
ClassifierRaises ==
  /\ pc = "PARSER"
  /\ parsed = NoResult
  /\ parsed' = validate_pdf_with_ai([raised |-> TRUE, text |-> TimeoutMsg])
  /\ UNCHANGED <<pc, ncols, input, columns, data, idx, folder, downloaded_files,
                 excel, archive, ret, hist, response>>

NextParse == ClassifierReturns \/ ClassifierRaises

SpecParse == InitParse /\ [][NextParse]_vars

(***************************************************************************)
(* Properties.                                                             *)
(***************************************************************************)
Rows == 1..Len(data)

Prepared == pc \notin {"INIT", "PARSER"}

NameOf(i) == data[i]["Product name"]

\* the four derived fields of row i of a table
Fields(table, i) ==
  <<table[i]["Web link"], table[i]["Validity Score"], table[i]["Validation Reason"],
    table[i]["PDS date"]>>

Defaults == <<Str(<<>>), Num(0), Str(<<>>), Str(<<>>)>>

\* a cell that shows as empty in a sheet
Blank(cell) == isna(cell) \/ (cell.t = "str" /\ cell.v = <<>>)

SameCell(a, b) == (Blank(a) /\ Blank(b)) \/ (~Blank(a) /\ ~Blank(b) /\ a = b)

Valid(i) == hist[i].called /\ hist[i].cls.score = 100 /\ hist[i].found # <<>>

\* the file named after row i's sanitized product name
AssetOf(i) == FilePath(Strip(NameOf(i).v))

Occurs(x, q) == \E k \in 1..Len(q) : q[k] = x

NoRepeat(q) == \A j, k \in 1..Len(q) : q[j] = q[k] => j = k

\* C2: when the run is done, every row scored 100 on a located URL has its
\* file, named after the sanitized product name, in the download folder, and
\* that name is an entry of the archive.  The claim is for every outcome of
\* the download request; it is taken here for the rows whose download went
\* through, where the file is there to be archived.
C2_OneFileArchived ==
  (pc = "DONE" /\ ncols >= 4) =>
    \A i \in Rows :
      (Valid(i) /\ hist[i].dl = "ok") =>
        /\ AssetOf(i) \in folder
        /\ archive.written
        /\ Occurs(AssetOf(i), archive.names)

\* the sheet names no product twice, and every name is a text without blanks
\* around it
DistinctNames ==
  /\ \A i, j \in 1..Len(input) : input[i][2] = input[j][2] => i = j
  /\ \A i \in 1..Len(input) :
       input[i][2].t = "str" /\ Strip(input[i][2].v) = input[i][2].v

\* C3: no two rows scored 100 on a located URL share a file, the list of
\* downloaded files holds no path twice, and the archive no entry name twice,
\* taken for the sheets whose product names are all different and stripped.
C3_OneToOne ==
  (Prepared /\ ncols >= 4 /\ DistinctNames) =>
    /\ \A i, j \in Rows : (i # j /\ Valid(i) /\ Valid(j)) => AssetOf(i) # AssetOf(j)
    /\ NoRepeat(downloaded_files)
    /\ NoRepeat(archive.names)

(***************************************************************************)
(* The grammar of the classifier's response, stated on the text as a       *)
(* whole: which positions of it are pipes, digits, blanks, the literal     *)
(* and a date.                                                             *)
(***************************************************************************)
Pipes(s) == {i \in 1..Len(s) : s[i] = "|"}

AllIn(s, a, b, cls) == \A k \in a..b : s[k] \in cls

\* s is digits, then blanks, then a pipe at p
ScoreHead(s, p) ==
  /\ p \in Pipes(s)
  /\ \E n \in 1..(p - 1) : AllIn(s, 1, n, Digits) /\ AllIn(s, n + 1, p - 1, Space)

\* the digits s begins with, as a number
ScoreOf(s) == ToInt(SubSeq(s, 1, Max({n \in 0..Len(s) : AllIn(s, 1, n, Digits)})))

\* t is D Month YYYY: one or two digits, a blank, letters, a blank, four digits
IsDate(t) ==
  \E n \in 1..2 :
    LET m == Len(t) - n - 6
    IN  /\ m >= 1
        /\ AllIn(t, 1, n, Digits)
        /\ t[n + 1] = " "
        /\ AllIn(t, n + 2, n + 1 + m, Letters)
        /\ t[n + m + 2] = " "
        /\ AllIn(t, n + m + 3, n + m + 6, Digits)

\* the dates that follow position p after blanks, "PDS date:" and blanks
DatesAfter(s, p) ==
  UNION { UNION { {SubSeq(s, q, e) : e \in {x \in q..Len(s) : IsDate(SubSeq(s, q, x))}} :
                  q \in {y \in (a + Len(PdsDateLit))..Len(s) :
                           /\ AllIn(s, a + Len(PdsDateLit), y - 1, Space)
                           /\ s[y] \in Digits} } :
          a \in {z \in (p + 1)..Len(s) :
                   AllIn(s, p + 1, z - 1, Space) /\ HasLit(s, z, PdsDateLit)} }

TheDate(s, p) == CHOOSE d \in DatesAfter(s, p) : TRUE

FirstPipe(s) == Min(Pipes(s))

SecondPipe(s) == Min(Pipes(s) \ {FirstPipe(s)})

\* score | reason without pipes | PDS date: D Month YYYY
IsThreePart(s) ==
  /\ Cardinality(Pipes(s)) >= 2
  /\ ScoreHead(s, FirstPipe(s))
  /\ SecondPipe(s) > FirstPipe(s) + 1
  /\ DatesAfter(s, SecondPipe(s)) # {}

\* 100 | PDS date: D Month YYYY
IsBare100(s) ==
  /\ Pipes(s) # {}
  /\ HasLit(s, 1, ScoreLit100)
  /\ AllIn(s, Len(ScoreLit100) + 1, FirstPipe(s) - 1, Space)
  /\ DatesAfter(s, FirstPipe(s)) # {}

\* score | rest
IsTwoPart(s) == Pipes(s) # {} /\ ScoreHead(s, FirstPipe(s))

\* everything after the first pipe
RestOfText(s) == Strip(SubSeq(s, FirstPipe(s) + 1, Len(s)))

\* what follows the first pipe and the blanks after it, up to the line's end
RestOfLine(s) ==
  LET from == Min({k \in (FirstPipe(s) + 1)..(Len(s) + 1) : At(s, k) \notin Space})
      to   == Min({k \in from..(Len(s) + 1) : At(s, k) \in {"\n", ""}})
  IN  Strip(SubSeq(s, from, to - 1))

\* the result the cascade is to give for the stripped response s, with rest
\* as the reason of the two-part fallback
Expected(s, rest) ==
  IF IsThreePart(s)
  THEN Result("three", ScoreOf(s),
              Strip(SubSeq(s, FirstPipe(s) + 1, SecondPipe(s) - 1)),
              format_pds_date(TheDate(s, SecondPipe(s))))
  ELSE IF IsBare100(s)
  THEN Result("bare", 100, <<>>, format_pds_date(TheDate(s, FirstPipe(s))))
  ELSE IF IsTwoPart(s) THEN Result("two", ScoreOf(s), rest, <<>>)
  ELSE Result("unparsed", 0, CouldntParse, <<>>)

Returned == pc = "PARSER" /\ parsed.via \notin {"none", "error"}

HasPdsLit(s) == \E k \in 1..Len(s) : HasLit(s, k, PdsDateLit)

\* C4, as stated: the three patterns in order, the first match winning, and
\* the two-part fallback giving the rest of the response as the reason.
C4_RestIsReason ==
  Returned => parsed = Expected(Strip(response), RestOfText(Strip(response)))

\* C4, amended: the three patterns in order, the first match winning; the
\* two-part fallback gives as reason what follows the pipe up to the end of
\* that line, and an empty date.  A response with one pipe and no bare-100
\* date has an empty date, and a response with "PDS date:" on that line but
\* no well-formed date keeps the date text in the reason.
C4_Cascade ==
  Returned =>
    LET s == Strip(response)
    IN  /\ parsed = Expected(s, RestOfLine(s))
        /\ (IsTwoPart(s) /\ Cardinality(Pipes(s)) = 1 /\ ~IsBare100(s)) =>
             parsed.date = <<>>
        /\ (IsTwoPart(s) /\ ~IsThreePart(s) /\ ~IsBare100(s) /\ HasPdsLit(RestOfLine(s))) =>
             parsed.via = "two" /\ HasPdsLit(parsed.reason) /\ parsed.date = <<>>

\* a response with "PDS date:" but no well-formed date after a second pipe, and
\* a line break in it, went to the two-part fallback
C4_Witness ==
  /\ Returned
  /\ parsed.via = "two"
  /\ HasPdsLit(parsed.reason)
  /\ Cardinality(Pipes(Strip(response))) >= 2
  /\ \E k \in 1..Len(Strip(response)) : Strip(response)[k] = "\n"

\* C5: every classification result, and every score in the table, is in 0..100.
C5_ScoreInRange ==
  (Prepared /\ ncols >= 4) =>
    /\ parsed.score \in 0..100
    /\ \A i \in Rows : data[i]["Validity Score"].v \in 0..100

\* C6: on a sheet of fewer than four columns (and at least one row) no row is
\* processed, no output is written and the run does not return.
C6_FewColumnsAbort ==
  (ncols < 4 /\ Len(input) > 0) =>
    /\ \A i \in DOMAIN hist : ~hist[i].seen
    /\ ~excel.written
    /\ pc # "DONE"

\* C7: the spreadsheet is written after the last row, rows are taken in order,
\* the archive is written after the spreadsheet, ARCHIVING is entered only
\* when the folder holds a file and whenever a row's download went through,
\* and the run returns an archive path exactly when ARCHIVING was entered.
C7_Phases ==
  ncols >= 4 =>
    /\ \A i \in DOMAIN hist : hist[i].seen => i <= idx
    /\ excel.written => (idx = Len(data) /\ pc \in {"WRITING_OUTPUT", "ARCHIVING", "DONE"})
    /\ archive.written => (excel.written /\ pc \in {"ARCHIVING", "DONE"})
    /\ pc = "ARCHIVING" => archive.written
    /\ pc = "DONE" => excel.written
    /\ archive.written => folder # {}
    /\ pc \in {"ARCHIVING", "DONE"} =>
         ((\E i \in DOMAIN hist : hist[i].dl = "ok") => archive.written)
    /\ pc = "DONE" => (ret = "excel and zip" <=> archive.written)

\* C8: on a sheet of four columns or more no exception leaves the run.
C8_NoEscape == ncols >= 4 => pc # "FAILED"

\* C9: a row for which the search gave no URL, or the page no text, reads
\* ("Not found", 0, "No PDF" or "No text extracted", ""); the classifier was
\* not called for it, no download was tried, and its file is not put on the
\* list, which holds one entry per row that was, and is what the archive holds.
C9_NothingFound ==
  /\ \A i \in DOMAIN hist :
       (hist[i].seen /\ (hist[i].found = <<>> \/ hist[i].text = <<>>)) =>
         /\ Fields(data, i) =
              <<Str(NOT_FOUND), Num(0),
                Str(IF hist[i].found = <<>> THEN NoPdf ELSE NoText), Str(<<>>)>>
         /\ ~hist[i].called
         /\ hist[i].dl = "none"
         /\ ~hist[i].collected
  /\ Len(downloaded_files) = Cardinality({i \in DOMAIN hist : hist[i].collected})
  /\ archive.written => archive.names = downloaded_files

\* a run that archived an earlier row's file, and a later row of the same
\* file name for which the search gave nothing
C9_Witness ==
  /\ pc = "DONE"
  /\ archive.written
  /\ \E i, j \in DOMAIN hist :
       /\ i < j
       /\ hist[i].collected
       /\ hist[j].seen
       /\ hist[j].found = <<>>
       /\ FilePath(NameOf(j).v) \in folder

\* C10: a download is tried only for a row the classifier scored 100, and the
\* row in the table is the located URL and the classifier's result, whatever
\* the download did.
C10_ResultKept ==
  \A i \in DOMAIN hist :
    /\ hist[i].dl # "none" => (hist[i].called /\ hist[i].cls.score = 100)
    /\ hist[i].called =>
         Fields(data, i) =
           <<Str(hist[i].found), Num(hist[i].cls.score), Str(hist[i].cls.reason),
             Str(hist[i].cls.date)>>

\* a run that ended with a row scored 100 whose download failed: no file, no
\* archive
C10_Witness ==
  /\ pc = "DONE"
  /\ ~archive.written
  /\ \E i \in DOMAIN hist :
       /\ hist[i].dl = "failed"
       /\ data[i]["Validity Score"] = Num(100)
       /\ excel.table[i]["Validity Score"] = Num(100)
       /\ AssetOf(i) \notin folder

=============================================================================
